---- MODULE Spec2Model ----
(***************************************************************************)
(* A model of the ma-QAOA computation engine: the state-evolution          *)
(* simulation (qaoa_core.py), the depth-1 closed-form evaluator            *)
(* (qaoa_core.py, src/analytical.py), the angle layout converter and the   *)
(* two multi-start optimization drivers (qaoa_core.py, src/optimization.py)*)
(*                                                                         *)
(* Numbers.  Angles are integers k standing for k*pi/4.  On that grid      *)
(* every sine and cosine lies in Z[sqrt 2]/2, so every amplitude and every *)
(* expectation is an exact number (a + b*sqrt 2)/2^s, written              *)
(* [a |-> a, b |-> b, s |-> s] and kept in lowest terms.  The float        *)
(* arithmetic of numpy is modelled by this exact arithmetic.               *)
(***************************************************************************)
EXTENDS Integers, Sequences, FiniteSets, TLC

----------------------------------------------------------------------------
(* Bounds of the model *)

\* seed angles are drawn from -1..MaxAngle, in units of pi/4
MaxAngle == 1
\* edge weights are drawn from 1..MaxWeight
MaxWeight == 2
\* the number of layers p is drawn from 1..MaxP
MaxP == 2

----------------------------------------------------------------------------
(* Exact real numbers (a + b*sqrt 2) / 2^s *)

Pow2(n) == 2 ^ n

\* The operations below read their operands through bound variables (u, w),
\* so that an operand is evaluated once however often the operation reads it.

\* lowest terms: the largest power of two that divides a, b and 2^s is
\* cancelled
RNorm(x) ==
    CHOOSE r \in
        {LET k == CHOOSE j \in 0..u.s :
                      /\ u.a % Pow2(j) = 0
                      /\ u.b % Pow2(j) = 0
                      /\ \/ j = u.s
                         \/ u.a % Pow2(j + 1) # 0
                         \/ u.b % Pow2(j + 1) # 0
         IN  [a |-> u.a \div Pow2(k), b |-> u.b \div Pow2(k), s |-> u.s - k] :
            u \in {x}} : TRUE

RInt(n) == [a |-> n, b |-> 0, s |-> 0]
RZero == RInt(0)
ROne == RInt(1)
\* n / 2^k
RDyadic(n, k) == RNorm([a |-> n, b |-> 0, s |-> k])

RAdd(x, y) ==
    CHOOSE r \in
        {IF u = RZero THEN w
         ELSE IF w = RZero THEN u
         ELSE IF u.s >= w.s
         THEN RNorm([a |-> u.a + w.a * Pow2(u.s - w.s),
                     b |-> u.b + w.b * Pow2(u.s - w.s), s |-> u.s])
         ELSE RNorm([a |-> u.a * Pow2(w.s - u.s) + w.a,
                     b |-> u.b * Pow2(w.s - u.s) + w.b, s |-> w.s]) :
            u \in {x}, w \in {y}} : TRUE

RNeg(x) == CHOOSE r \in {[a |-> -u.a, b |-> -u.b, s |-> u.s] : u \in {x}} : TRUE
RSub(x, y) == RAdd(x, RNeg(y))

RMul(x, y) ==
    CHOOSE r \in
        {IF u = RZero \/ w = RZero THEN RZero
         ELSE RNorm([a |-> u.a * w.a + 2 * u.b * w.b,
                     b |-> u.a * w.b + u.b * w.a,
                     s |-> u.s + w.s]) :
            u \in {x}, w \in {y}} : TRUE

Abs(n) == IF n < 0 THEN -n ELSE n

\* the sign of a + b*sqrt 2, decided in the integers
RSign(x) ==
    CHOOSE r \in
        {IF a >= 0 /\ b >= 0 THEN (IF a = 0 /\ b = 0 THEN 0 ELSE 1)
         ELSE IF a <= 0 /\ b <= 0 THEN -1
         ELSE IF a > 0 THEN (IF a * a > 2 * b * b THEN 1 ELSE -1)
         ELSE (IF 2 * b * b > a * a THEN 1 ELSE -1) :
            a \in {x.a}, b \in {x.b}} : TRUE

RLess(x, y) == RSign(RSub(x, y)) = -1

\* product of the numbers xs[1], ..., xs[Len(xs)]; the empty product is 1
RECURSIVE RProd(_)
RProd(xs) == IF xs = <<>> THEN ROne ELSE RMul(Head(xs), RProd(Tail(xs)))

(* numpy.cos and numpy.sin at k*pi/4 *)
cos(k) ==
    LET r == k % 8
    IN  IF r = 0 THEN RInt(1)
        ELSE IF r = 4 THEN RInt(-1)
        ELSE IF r = 2 \/ r = 6 THEN RZero
        ELSE IF r = 1 \/ r = 7 THEN [a |-> 0, b |-> 1, s |-> 1]
        ELSE [a |-> 0, b |-> -1, s |-> 1]

sin(k) == cos(k - 2)

----------------------------------------------------------------------------
(* Exact complex numbers re + i*im *)

Cx(re, im) == [re |-> re, im |-> im]
CZero == Cx(RZero, RZero)
CAdd(x, y) ==
    IF x = CZero THEN y
    ELSE IF y = CZero THEN x
    ELSE Cx(RAdd(x.re, y.re), RAdd(x.im, y.im))
CMul(x, y) ==
    IF x = CZero \/ y = CZero THEN CZero
    ELSE Cx(RSub(RMul(x.re, y.re), RMul(x.im, y.im)),
            RAdd(RMul(x.re, y.im), RMul(x.im, y.re)))
CConj(x) == Cx(x.re, RNeg(x.im))
CScale(r, x) == Cx(RMul(r, x.re), RMul(r, x.im))

\* np.exp(-1j * t) at t = k*pi/4
ExpNegI(k) == Cx(cos(k), RNeg(sin(k)))

----------------------------------------------------------------------------
(* Basis Index Provider (module preprocessing, used by qaoa_core.py) *)

\* the value of qubit q (0-based) in basis label l
Bit(l, q) == (l \div Pow2(q)) % 2

\* get_all_binary_labelings(n): row l+1, column q+1 is the value of q in l
get_all_binary_labelings(n) ==
    [l \in 1..Pow2(n) |-> [q \in 1..n |-> Bit(l - 1, q - 1)]]

\* get_neighbour_labelings(n): row l+1, column q+1 is l with bit q flipped
get_neighbour_labelings(n) ==
    [l \in 1..Pow2(n) |->
        [q \in 1..n |-> IF Bit(l - 1, q - 1) = 0 THEN l - 1 + Pow2(q - 1)
                                                 ELSE l - 1 - Pow2(q - 1)]]

\* check_edge_cut(labeling, u, v): 1 when the edge (u, v) is cut
check_edge_cut(labeling, u, v) == IF labeling[u + 1] # labeling[v + 1] THEN 1 ELSE 0

\* the term table built at qaoa_core.py:242, one row per edge of the graph
CutTable(graph) ==
    LET all_labelings == get_all_binary_labelings(graph.n)
    IN  [i \in 1..Len(graph.edges) |->
            [l \in 1..Pow2(graph.n) |->
                check_edge_cut(all_labelings[l], graph.edges[i][1], graph.edges[i][2])]]

----------------------------------------------------------------------------
(* State Evolution Engine, qaoa_core.py *)

\* Python's seq[lo:hi] on a 0-based sequence: out-of-range ends are clipped
Slice(seq, lo, hi) ==
    LET h == IF hi > Len(seq) THEN Len(seq) ELSE hi
    IN  IF lo >= h THEN <<>> ELSE [k \in 1..(h - lo) |-> seq[lo + k]]

\* the factor that apply_uc multiplies into amplitude l:
\* prod over i in range(len(gammas)) of exp(-1j * gammas[i] * all_cuv_vals[i, l])
RECURSIVE PhaseProd(_, _, _, _)
PhaseProd(all_cuv_vals, gammas, l, i) ==
    IF i > Len(gammas) THEN Cx(ROne, RZero)
    ELSE CMul(ExpNegI(gammas[i] * all_cuv_vals[i][l]),
              PhaseProd(all_cuv_vals, gammas, l, i + 1))

apply_uc(all_cuv_vals, gammas, psi) ==
    [l \in 1..Len(psi) |-> CMul(PhaseProd(all_cuv_vals, gammas, l, 1), psi[l])]

\* a variant of get_exp_x with real off-diagonal entries sin(beta)
get_exp_x_real(beta) ==
    [r \in 0..1 |-> [c \in 0..1 |->
        IF r = c THEN Cx(cos(beta), RZero) ELSE Cx(sin(beta), RZero)]]

\* get_exp_x(beta)[r][c], r and c in 0..1
get_exp_x(beta) ==
    [r \in 0..1 |-> [c \in 0..1 |->
        IF r = c THEN Cx(cos(beta), RZero) ELSE Cx(RZero, RNeg(sin(beta)))]]

\* the loop of apply_unitary_one_qubit from index i on; res is the
\* accumulator, psi is only read.  res = np.zeros((1, len(psi))) has the
\* length of psi, and the loop bound is read off it.
RECURSIVE UnitaryLoop(_, _, _, _, _, _)
UnitaryLoop(unitary, psi, target_neighbours, target_vals, i, res) ==
    IF i > Len(res) THEN res
    ELSE
        LET tv == target_vals[i]
            r1 == [res EXCEPT ![i] = CAdd(@, CMul(psi[i], unitary[tv][tv]))]
            nb == target_neighbours[i] + 1
            r2 == [r1 EXCEPT ![nb] = CAdd(@, CMul(psi[i], unitary[1 - tv][tv]))]
        IN  UnitaryLoop(unitary, psi, target_neighbours, target_vals, i + 1, r2)

\* a variant of the loop that updates one vector in place: entry i is
\* rewritten from the current entries i and target_neighbours[i]
RECURSIVE UnitaryLoopInPlace(_, _, _, _, _)
UnitaryLoopInPlace(unitary, target_neighbours, target_vals, i, res) ==
    IF i > Len(res) THEN res
    ELSE
        LET tv == target_vals[i]
            nb == target_neighbours[i] + 1
            r1 == [res EXCEPT ![i] = CAdd(CMul(res[i], unitary[tv][tv]),
                                          CMul(res[nb], unitary[1 - tv][tv]))]
        IN  UnitaryLoopInPlace(unitary, target_neighbours, target_vals, i + 1, r1)

apply_unitary_one_qubit_in_place(unitary, psi, target_neighbours, target_vals) ==
    UnitaryLoopInPlace(unitary, target_neighbours, target_vals, 1, psi)

apply_unitary_one_qubit(unitary, psi, target_neighbours, target_vals) ==
    UnitaryLoop(unitary, psi, target_neighbours, target_vals, 1,
                [l \in 1..Len(psi) |-> CZero])

\* betas[i] inside the @njit function apply_ub_individual.  numba compiles
\* without bounds checks, so an index past the end of betas reads whatever
\* the memory holds: oob stands for that value.
BetaAt(betas, i, oob) == IF i <= Len(betas) THEN betas[i] ELSE oob

\* the loop of apply_ub_individual from qubit i (1-based) on; every pass
\* maps a state of length 0 to itself, so such a state is returned as it is
RECURSIVE UbLoop(_, _, _, _, _, _)
UbLoop(betas, res, neighbours, basis_bin, i, oob) ==
    IF Len(res) = 0 \/ i > Len(neighbours[1]) THEN res
    ELSE UbLoop(betas,
                apply_unitary_one_qubit(get_exp_x(BetaAt(betas, i, oob)), res,
                    [l \in 1..Len(res) |-> neighbours[l][i]],
                    [l \in 1..Len(res) |-> basis_bin[l][i]]),
                neighbours, basis_bin, i + 1, oob)

\* a variant of apply_ub_individual that hands qubit i the angle of qubit
\* num_qubits - 1 - i
apply_ub_individual_reversed(betas, psi, neighbours, basis_bin, oob) ==
    UbLoop([k \in 1..Len(betas) |-> betas[Len(betas) + 1 - k]], psi, neighbours,
           basis_bin, 1, oob)

apply_ub_individual(betas, psi, neighbours, basis_bin, oob) ==
    UbLoop(betas, psi, neighbours, basis_bin, 1, oob)

\* np.vdot(psi, diagonal_vals * psi) over the labels lo..hi, real part: the
\* sum of conj(psi[l]) * (diagonal_vals[l] * psi[l]), added up pairwise
RECURSIVE DiagSum(_, _, _, _)
DiagSum(psi, diagonal_vals, lo, hi) ==
    IF lo > hi THEN RZero
    ELSE IF lo = hi
    THEN CMul(CConj(psi[lo]), CScale(RInt(diagonal_vals[lo]), psi[lo])).re
    ELSE RAdd(DiagSum(psi, diagonal_vals, lo, (lo + hi) \div 2),
              DiagSum(psi, diagonal_vals, ((lo + hi) \div 2) + 1, hi))

calc_expectation_diagonal(psi, diagonal_vals) ==
    DiagSum(psi, diagonal_vals, 1, Len(psi))

\* the absent optional arguments edge_inds=None and edge_list=None
None == <<-1>>
NoneEdges == << <<-1, -1>> >>

\* 1 / sqrt(2^n)
RECURSIVE InvSqrtPow2(_)
InvSqrtPow2(n) ==
    IF n = 0 THEN ROne ELSE RMul([a |-> 0, b |-> 1, s |-> 1], InvSqrtPow2(n - 1))

\* log2 of the number of basis labels
RECURSIVE Log2(_)
Log2(m) == IF m <= 1 THEN 0 ELSE 1 + Log2(m \div 2)

\* np.sum(all_cuv_vals[edge_inds, :], 0) at label l; edge_inds is 0-based
RECURSIVE RowSum(_, _, _, _)
RowSum(all_cuv_vals, edge_inds, l, k) ==
    IF k > Len(edge_inds) THEN 0
    ELSE all_cuv_vals[edge_inds[k] + 1][l] + RowSum(all_cuv_vals, edge_inds, l, k + 1)

\* the layer loop of run_ma_qaoa_simulation from layer i (0-based) on; a
\* layer maps a state of length 0 to itself
RECURSIVE LayerLoop(_, _, _, _, _, _, _, _)
LayerLoop(angles, p, all_cuv_vals, neighbours, basis_bin, i, psi, oob) ==
    IF Len(psi) = 0 \/ i >= p THEN psi
    ELSE
        LET num_angles_per_layer == Len(angles) \div p
            layer_angles == Slice(angles, i * num_angles_per_layer,
                                  (i + 1) * num_angles_per_layer)
            gammas == Slice(layer_angles, 0, Len(all_cuv_vals))
            psi1 == apply_uc(all_cuv_vals, gammas, psi)
            betas == Slice(layer_angles, Len(all_cuv_vals), Len(layer_angles))
            psi2 == apply_ub_individual(betas, psi1, neighbours, basis_bin, oob)
        IN  LayerLoop(angles, p, all_cuv_vals, neighbours, basis_bin, i + 1, psi2, oob)

\* np.ones(size) / np.sqrt(size)
UniformState(size) == [l \in 1..size |-> Cx(InvSqrtPow2(Log2(size)), RZero)]

\* list(range(all_cuv_vals.shape[0]))
AllRows(all_cuv_vals) == [k \in 1..Len(all_cuv_vals) |-> k - 1]

\* a variant of run_ma_qaoa_simulation that forgets the filter
run_ma_qaoa_simulation_nofilter(angles, p, all_cuv_vals, neighbours, basis_bin, edge_inds, oob) ==
    LET size == Len(all_cuv_vals[1])
        psi == LayerLoop(angles, p, all_cuv_vals, neighbours, basis_bin, 0,
                         UniformState(size), oob)
    IN  calc_expectation_diagonal(psi,
            [l \in 1..size |-> RowSum(all_cuv_vals, AllRows(all_cuv_vals), l, 1)])

run_ma_qaoa_simulation(angles, p, all_cuv_vals, neighbours, basis_bin, edge_inds, oob) ==
    LET inds == IF edge_inds = None THEN AllRows(all_cuv_vals) ELSE edge_inds
        size == Len(all_cuv_vals[1])
        psi == LayerLoop(angles, p, all_cuv_vals, neighbours, basis_bin, 0,
                         UniformState(size), oob)
    IN  calc_expectation_diagonal(psi,
            [l \in 1..size |-> RowSum(all_cuv_vals, inds, l, 1)])

\* whether some layer of the call reads betas past its end
ReadsPastBetas(angles, p, num_terms, num_qubits) ==
    (Len(angles) \div p) - num_terms < num_qubits

----------------------------------------------------------------------------
(* Angle Layout Converter, qaoa_core.py *)

\* [x] * n
Repeat(x, n) == [k \in 1..n |-> x]

\* the loop over zip(angles[::2], angles[1::2]) from pair j (1-based) on
RECURSIVE ConvertLoop(_, _, _, _)
ConvertLoop(angles, num_edges, num_nodes, j) ==
    IF 2 * j > Len(angles) THEN <<>>
    ELSE Repeat(angles[2 * j - 1], num_edges) \o Repeat(angles[2 * j], num_nodes)
         \o ConvertLoop(angles, num_edges, num_nodes, j + 1)

\* a variant of the converter with the two repeat counts exchanged
convert_angles_swapped_counts(angles, num_edges, num_nodes) ==
    ConvertLoop(angles, num_nodes, num_edges, 1)

convert_angles_qaoa_to_multi_angle(angles, num_edges, num_nodes) ==
    ConvertLoop(angles, num_edges, num_nodes, 1)

run_qaoa_simulation(angles, p, all_cuv_vals, neighbours, basis_bin, edge_inds, oob) ==
    LET angles_maqaoa == convert_angles_qaoa_to_multi_angle(angles,
                             Len(all_cuv_vals), Len(neighbours[1]))
    IN  run_ma_qaoa_simulation(angles_maqaoa, p, all_cuv_vals, neighbours,
                               basis_bin, edge_inds, oob)

----------------------------------------------------------------------------
(* Graph: [n, edges, weight, gamma].  Nodes are 0..n-1; edges is the     *)
(* sequence graph.edges of pairs <<u, v>>; weight[i] and gamma[i] are the *)
(* 'weight' and 'gamma' attributes of edge i; gamma[i] = NoAttr when the  *)
(* edge carries no 'gamma' attribute.                                     *)

NoAttr == -1000

Nodes(graph) == 0..(graph.n - 1)

\* the index in graph.edges of the edge between u and m (either orientation)
EdgeIndex(graph, u, m) ==
    CHOOSE i \in 1..Len(graph.edges) :
        graph.edges[i] = <<u, m>> \/ graph.edges[i] = <<m, u>>

\* set(graph[u])
Adj(graph, u) ==
    {m \in Nodes(graph) :
        \E i \in 1..Len(graph.edges) :
            graph.edges[i] = <<u, m>> \/ graph.edges[i] = <<m, u>>}

\* the elements of a finite set of integers, in increasing order
RECURSIVE SetSeq(_)
SetSeq(S) ==
    IF S = {} THEN <<>>
    ELSE LET m == CHOOSE x \in S : \A y \in S : x <= y
         IN  <<m>> \o SetSeq(S \ {m})

\* list(graph.edges) when edge_list is None
EdgeList(graph, edge_list) == IF edge_list = NoneEdges THEN graph.edges ELSE edge_list

----------------------------------------------------------------------------
(* Closed-Form Evaluator, qaoa_core.py run_ma_qaoa_analytical_p1 and      *)
(* src/analytical.py calc_expectation_ma_qaoa_analytical_p1 (same text)   *)

\* nx.set_edge_attributes(graph, {(u, v): gammas[i] * w ...}, name='gamma')
set_edge_attributes(graph, angles) ==
    LET gammas == Slice(angles, 0, Len(graph.edges))
    IN  [graph EXCEPT !.gamma =
            [i \in 1..Len(graph.edges) |-> gammas[i] * graph.weight[i]]]

\* graph.edges[u, m]['gamma']
GammaOf(graph, u, m) == graph.gamma[EdgeIndex(graph, u, m)]

\* a variant of the loop body that leaves the factors of f out of the two
\* products of the main term
EdgeTermNoFold(graph, betas, u, v) ==
    LET w == graph.weight[EdgeIndex(graph, u, v)]
        d == Adj(graph, u) \ {v}
        e == Adj(graph, v) \ {u}
        f == d \cap e
        df == SetSeq(d \ f)
        ef == SetSeq(e \ f)
        fs == SetSeq(f)
        cos_prod_d == RProd([k \in 1..Len(df) |-> cos(GammaOf(graph, u, df[k]))])
        cos_prod_e == RProd([k \in 1..Len(ef) |-> cos(GammaOf(graph, v, ef[k]))])
        cos_prod_f_plus ==
            RProd([k \in 1..Len(fs) |->
                cos(GammaOf(graph, u, fs[k]) + GammaOf(graph, v, fs[k]))])
        cos_prod_f_minus ==
            RProd([k \in 1..Len(fs) |->
                cos(GammaOf(graph, u, fs[k]) - GammaOf(graph, v, fs[k]))])
        triangle ==
            RMul(RDyadic(w, 2),
              RMul(sin(2 * betas[u + 1]),
                RMul(sin(2 * betas[v + 1]),
                  RMul(cos_prod_d,
                    RMul(cos_prod_e, RSub(cos_prod_f_plus, cos_prod_f_minus))))))
        cos_prod_d2 == cos_prod_d
        cos_prod_e2 == cos_prod_e
        main ==
            RMul(RDyadic(w, 1),
              RMul(sin(GammaOf(graph, u, v)),
                RAdd(RMul(sin(2 * betas[u + 1]),
                       RMul(cos(2 * betas[v + 1]), cos_prod_d2)),
                     RMul(cos(2 * betas[u + 1]),
                       RMul(sin(2 * betas[v + 1]), cos_prod_e2)))))
    IN  RAdd(RAdd(RDyadic(w, 1), IF f # {} THEN triangle ELSE RZero), main)

\* the body of the loop over edge_list for the edge (u, v): the value of cuv
EdgeTerm(graph, betas, u, v) ==
    LET w == graph.weight[EdgeIndex(graph, u, v)]
        d == Adj(graph, u) \ {v}
        e == Adj(graph, v) \ {u}
        f == d \cap e
        df == SetSeq(d \ f)
        ef == SetSeq(e \ f)
        fs == SetSeq(f)
        cos_prod_d == RProd([k \in 1..Len(df) |-> cos(GammaOf(graph, u, df[k]))])
        cos_prod_e == RProd([k \in 1..Len(ef) |-> cos(GammaOf(graph, v, ef[k]))])
        cos_prod_f_plus ==
            RProd([k \in 1..Len(fs) |->
                cos(GammaOf(graph, u, fs[k]) + GammaOf(graph, v, fs[k]))])
        cos_prod_f_minus ==
            RProd([k \in 1..Len(fs) |->
                cos(GammaOf(graph, u, fs[k]) - GammaOf(graph, v, fs[k]))])
        triangle ==
            RMul(RDyadic(w, 2),
              RMul(sin(2 * betas[u + 1]),
                RMul(sin(2 * betas[v + 1]),
                  RMul(cos_prod_d,
                    RMul(cos_prod_e, RSub(cos_prod_f_plus, cos_prod_f_minus))))))
        cos_prod_d2 ==
            IF f # {}
            THEN RMul(cos_prod_d,
                      RProd([k \in 1..Len(fs) |-> cos(GammaOf(graph, u, fs[k]))]))
            ELSE cos_prod_d
        cos_prod_e2 ==
            IF f # {}
            THEN RMul(cos_prod_e,
                      RProd([k \in 1..Len(fs) |-> cos(GammaOf(graph, v, fs[k]))]))
            ELSE cos_prod_e
        main ==
            RMul(RDyadic(w, 1),
              RMul(sin(GammaOf(graph, u, v)),
                RAdd(RMul(sin(2 * betas[u + 1]),
                       RMul(cos(2 * betas[v + 1]), cos_prod_d2)),
                     RMul(cos(2 * betas[u + 1]),
                       RMul(sin(2 * betas[v + 1]), cos_prod_e2)))))
    IN  RAdd(RAdd(RDyadic(w, 1), IF f # {} THEN triangle ELSE RZero), main)

\* the loop over edge_list from position k on; graph carries the annotation
RECURSIVE ObjectiveLoop(_, _, _, _)
ObjectiveLoop(graph, betas, edge_list, k) ==
    IF k > Len(edge_list) THEN RZero
    ELSE RAdd(EdgeTerm(graph, betas, edge_list[k][1], edge_list[k][2]),
              ObjectiveLoop(graph, betas, edge_list, k + 1))

\* the value returned by run_ma_qaoa_analytical_p1; the graph it leaves
\* behind is set_edge_attributes(graph, angles)
run_ma_qaoa_analytical_p1(angles, graph, edge_list) ==
    LET betas == Slice(angles, Len(graph.edges), Len(angles))
        annotated == set_edge_attributes(graph, angles)
    IN  ObjectiveLoop(annotated, betas, EdgeList(graph, edge_list), 1)

run_qaoa_analytical_p1(angles, graph, edge_list) ==
    LET angles_maqaoa == convert_angles_qaoa_to_multi_angle(angles,
                             Len(graph.edges), graph.n)
    IN  run_ma_qaoa_analytical_p1(angles_maqaoa, graph, edge_list)

----------------------------------------------------------------------------
(* State *)

VARIABLES
    graph,      \* the networkx Graph object, with its edge attributes
    graph_pre,  \* the graph as it was when the closed-form evaluator was entered
    p,          \* number of layers
    layout,     \* "ma": one angle per edge and node; "standard": 2 per layer
    angles,     \* the angle vector handed to the evaluators
    edge_inds,  \* the term-index filter (None, or 0-based row indices)
    sim_out,    \* outcome of the simulation call
    ana_out,    \* outcome of the closed-form call
    conv_out    \* outcome of the angle layout converter call

evalVars == <<graph, graph_pre, p, layout, angles, edge_inds, sim_out, ana_out, conv_out>>

VARIABLES
    drv,             \* "core": qaoa_core.optimize_qaoa_angles;
                     \* "opt": src/optimization.py optimize_qaoa_angles
    use_analytical,  \* argument use_analytical of the core driver
    num_restarts,    \* the restart budget
    evaluator,       \* the evaluator the driver minimizes, with its num_angles
    pc,              \* "init", "loop", "done" or "raised"
    opt_ind,         \* the loop index
    objective_max,   \* sum of the edge weights
    objective_best,
    angles_best,
    ret,             \* the tuple the driver returned
    calls,           \* number of optimize.minimize calls made so far
    late_calls,      \* those made with the best already within 1e-3 of the maximum
    last,            \* the last restart: start, result and the best before it
    outcomes         \* for every evaluator the caller can build: the results
                     \* optimize.minimize can come back with

drvVars == <<drv, use_analytical, num_restarts, evaluator, pc, opt_ind, objective_max,
             objective_best, angles_best, ret, calls, late_calls, last, outcomes>>

VARIABLES
    c_pc,      \* per concurrent closed-form call: "start", "loop" or "done"
    c_angles,  \* its angle vector
    c_k,       \* its position in edge_list
    c_obj      \* its local variable objective

concVars == <<c_pc, c_angles, c_k, c_obj>>

VARIABLES
    s_pc,       \* position in run_ma_qaoa_simulation: "idle", "layer" (head of
                \* the loop over the layers), "ub" (inside apply_ub_individual),
                \* "expect" or "done"
    s_psi,      \* psi, and res inside apply_ub_individual
    s_arg,      \* the vector handed to the last apply_unitary_one_qubit call
    s_unitary,  \* the unitary handed to the last apply_unitary_one_qubit call
    s_ub_in,    \* the vector handed to the running apply_ub_individual call
    s_layer,    \* i of the loop over the layers
    s_qubit,    \* i of the loop over the qubits in apply_ub_individual
    s_trace,    \* the operations applied so far, each with the positions of
                \* angles it took its angles from
    s_out       \* the value returned

simVars == <<s_pc, s_psi, s_arg, s_unitary, s_ub_in, s_layer, s_qubit, s_trace, s_out>>

VARIABLES
    z_g,     \* the vector handed to calc_expectation_general_analytical_z1_reduced
    z_red,   \* what calc_expectation_general_analytical_z1_reduced returned
    z_full   \* what calc_expectation_general_analytical_z1 returned

zVars == <<z_g, z_red, z_full>>

VARIABLES
    df,      \* the DataFrame handed to calculate_min_p
    t_pc     \* "idle", "loaded" or "done"

tVars == <<df, t_pc>>

auxVars == <<simVars, zVars, tVars>>

vars == <<evalVars, drvVars, concVars, auxVars>>

----------------------------------------------------------------------------
(* Inputs *)

AngleSet == (-1)..MaxAngle

\* the graphs the evaluators are run on: an edge, a path, a triangle and a
\* triangle with a pendant node, as [n, edges]
Shapes ==
    { [n |-> 2, edges |-> << <<0, 1>> >>],
      [n |-> 3, edges |-> << <<0, 1>>, <<1, 2>> >>],
      [n |-> 3, edges |-> << <<0, 1>>, <<0, 2>>, <<1, 2>> >>],
      [n |-> 4, edges |-> << <<0, 1>>, <<0, 2>>, <<1, 2>>, <<2, 3>> >>] }

\* weights 1 + ((wsel * i) % MaxWeight): all 1 for wsel = 0, mixed otherwise
MakeGraph(shape, wsel) ==
    [n |-> shape.n, edges |-> shape.edges,
     weight |-> [i \in 1..Len(shape.edges) |-> 1 + ((wsel * i) % MaxWeight)],
     gamma |-> [i \in 1..Len(shape.edges) |-> NoAttr]]

UnitWeights(g) == \A i \in 1..Len(g.edges) : g.weight[i] = 1

\* a multi-angle vector for pp layers: in layer i (0-based) edge j gets
\* g0 + dg*j + i and node q gets b0 + db*q + i
AnglesMA(num_edges, num_nodes, pp, g0, dg, b0, db) ==
    [k \in 1..((num_edges + num_nodes) * pp) |->
        LET i == (k - 1) \div (num_edges + num_nodes)
            r == (k - 1) % (num_edges + num_nodes)
        IN  IF r < num_edges THEN g0 + dg * r + i
                             ELSE b0 + db * (r - num_edges) + i]

\* a standard vector for pp layers: (g0 + i, b0 + i) in layer i
AnglesStd(pp, g0, b0) ==
    [k \in 1..(2 * pp) |-> IF k % 2 = 1 THEN g0 + (k - 1) \div 2
                                          ELSE b0 + (k - 1) \div 2]

\* the term-index filters tried on a table of m rows: each single row,
\* all rows, and all rows but the first (empty when m = 1)
Filters(m) ==
    {<<k>> : k \in 0..(m - 1)}
        \cup {[k \in 1..m |-> k - 1]} \cup {[k \in 1..(m - 1) |-> k]}

\* the values of the variables a specification does not use
NoLast == [start |-> <<>>, x |-> <<>>, fun |-> RZero, success |-> TRUE, prev_best |-> RZero]
NoEvaluator == [kind |-> "none", multi_angle |-> FALSE, num_angles |-> 0]
NoAngles == [v |-> <<>>, over_pi |-> FALSE]

IdleDrv ==
    /\ drv = "none"
    /\ use_analytical = FALSE
    /\ num_restarts = 0
    /\ evaluator = NoEvaluator
    /\ pc = "init"
    /\ opt_ind = 0
    /\ objective_max = RZero
    /\ objective_best = RZero
    /\ angles_best = NoAngles
    /\ ret = <<>>
    /\ calls = 0
    /\ late_calls = 0
    /\ last = NoLast
    /\ outcomes = <<>>

IdleConc ==
    /\ c_pc = <<>>
    /\ c_angles = <<>>
    /\ c_k = <<>>
    /\ c_obj = <<>>

IdleSim ==
    /\ s_pc = "idle"
    /\ s_psi = <<>>
    /\ s_arg = <<>>
    /\ s_unitary = <<>>
    /\ s_ub_in = <<>>
    /\ s_layer = 0
    /\ s_qubit = 0
    /\ s_trace = <<>>
    /\ s_out = [kind |-> "none", val |-> RZero]

IdleZ ==
    /\ z_g = <<>>
    /\ z_red = [kind |-> "none", val |-> RZero]
    /\ z_full = [kind |-> "none", val |-> RZero]

IdleT ==
    /\ df = <<>>
    /\ t_pc = "idle"

IdleAux == IdleSim /\ IdleZ /\ IdleT

IdleEval ==
    /\ angles = <<>>
    /\ edge_inds = None
    /\ sim_out = [kind |-> "none", val |-> RZero]
    /\ ana_out = [kind |-> "none", val |-> RZero]
    /\ conv_out = <<>>

NoOut == [kind |-> "none", val |-> RZero]
Value(v) == [kind |-> "value", val |-> v]
IndexError == [kind |-> "IndexError", val |-> RZero]

\* the length the layout prescribes for p layers on graph g
NumAngles(lay, g, pp) == IF lay = "ma" THEN (Len(g.edges) + g.n) * pp ELSE 2 * pp

\* Inputs of the evaluators.  Weighted graphs and the four-node graph are
\* evaluated at p = 1 only (the closed-form evaluator reads the weights, the
\* simulation does not); vectors one angle short or long come unfiltered.
InitEval ==
    /\ \E shape \in Shapes, wsel \in 0..(MaxWeight - 1) : graph = MakeGraph(shape, wsel)
    /\ graph_pre = graph
    /\ p \in 1..MaxP
    /\ layout \in {"ma", "standard"}
    /\ edge_inds \in {None} \cup Filters(Len(graph.edges))
    /\ \E g0 \in AngleSet, b0 \in AngleSet, d \in 0..1, cut \in -1..1 :
          LET base == IF layout = "ma"
                      THEN AnglesMA(Len(graph.edges), graph.n, p, g0, d, b0, d)
                      ELSE AnglesStd(p, g0, b0)
          IN  /\ layout = "standard" => d = 0 /\ cut = 0
              /\ cut # 0 => UnitWeights(graph) /\ edge_inds = None /\ graph.n < 4
              /\ p > 1 => UnitWeights(graph) /\ graph.n < 4
              /\ angles = IF cut = 1 THEN SubSeq(base, 1, Len(base) - 1)
                          ELSE IF cut = -1 THEN Append(base, g0)
                          ELSE base
    /\ sim_out = NoOut
    /\ ana_out = NoOut
    /\ conv_out = <<>>
    /\ IdleDrv
    /\ IdleConc
    /\ IdleAux

----------------------------------------------------------------------------
(* Calls of the evaluators *)

\* edge_list for the closed-form evaluator: the edges the filter names
EdgeListOf(g, inds) ==
    IF inds = None THEN NoneEdges ELSE [k \in 1..Len(inds) |-> g.edges[inds[k] + 1]]

\* run_ma_qaoa_simulation / run_qaoa_simulation on the term table of the graph
SimCall(oob) ==
    LET all_cuv_vals == CutTable(graph)
        neighbours == get_neighbour_labelings(graph.n)
        basis_bin == get_all_binary_labelings(graph.n)
    IN  IF layout = "ma"
        THEN run_ma_qaoa_simulation(angles, p, all_cuv_vals, neighbours,
                                    basis_bin, edge_inds, oob)
        ELSE run_qaoa_simulation(angles, p, all_cuv_vals, neighbours,
                                 basis_bin, edge_inds, oob)

RunSimulation ==
    /\ sim_out = NoOut
    /\ conv_out = <<>>
    /\ IF layout = "ma" /\ ReadsPastBetas(angles, p, Len(graph.edges), graph.n)
       THEN \/ sim_out' = IndexError                      \* bounds-checked build
            \/ \E oob \in AngleSet : sim_out' = Value(SimCall(oob))
       ELSE sim_out' = Value(SimCall(0))
    /\ UNCHANGED <<graph, graph_pre, p, layout, angles, edge_inds, ana_out, conv_out,
                   drvVars, concVars, auxVars>>

\* run_ma_qaoa_analytical_p1 / run_qaoa_analytical_p1 with a vector of the
\* length its layout prescribes
RunAnalytical ==
    /\ ana_out = NoOut
    /\ conv_out = <<>>
    /\ p = 1
    /\ Len(angles) = NumAngles(layout, graph, 1)
    /\ LET ma == IF layout = "ma" THEN angles
                 ELSE convert_angles_qaoa_to_multi_angle(angles, Len(graph.edges), graph.n)
       IN  /\ ana_out' = Value(IF layout = "ma"
                THEN run_ma_qaoa_analytical_p1(angles, graph, EdgeListOf(graph, edge_inds))
                ELSE run_qaoa_analytical_p1(angles, graph, EdgeListOf(graph, edge_inds)))
           /\ graph' = set_edge_attributes(graph, ma)
    /\ graph_pre' = graph
    /\ UNCHANGED <<p, layout, angles, edge_inds, sim_out, conv_out, drvVars, concVars, auxVars>>

\* convert_angles_qaoa_to_multi_angle on a standard vector
Convert ==
    /\ layout = "standard"
    /\ conv_out = <<>>
    /\ sim_out = NoOut
    /\ ana_out = NoOut
    /\ conv_out' = convert_angles_qaoa_to_multi_angle(angles, Len(graph.edges), graph.n)
    /\ UNCHANGED <<graph, graph_pre, p, layout, angles, edge_inds, sim_out, ana_out,
                   drvVars, concVars, auxVars>>

NextEval == RunSimulation \/ RunAnalytical \/ Convert

SpecEval == InitEval /\ [][NextEval]_vars

----------------------------------------------------------------------------
(* Properties of the evaluators (checked under SpecEval) *)

\* |x - y| <= 1e-9.  For d = (a + b*sqrt 2)/2^s other than 0,
\* |d| >= 1 / ((|a| + 2|b|) * 2^s), so d is further than 1e-9 from 0
\* whenever (|a| + 2|b|) * 2^s < 10^9.
WithinTol(x, y) ==
    LET d == RSub(x, y)
    IN  ~ ( /\ (d.a # 0 \/ d.b # 0)
            /\ (Abs(d.a) + 2 * Abs(d.b)) * Pow2(d.s) < 1000000000 )

WellFormed == Len(angles) = NumAngles(layout, graph, p)

BothEvaluated == sim_out.kind = "value" /\ ana_out.kind = "value"

\* C1: at p = 1 the closed-form evaluator and the simulation over the
\* edge-cut term table of the same graph return the same expectation to
\* within 1e-9, in the multi-angle and in the standard layout.
C1_ClosedFormMatchesSimulation ==
    BothEvaluated => WithinTol(ana_out.val, sim_out.val)

\* The agreement of C1 restricted to graphs whose weights are all 1.
UnitWeightAgreement ==
    BothEvaluated /\ UnitWeights(graph) => ana_out.val = sim_out.val

\* C5: run_ma_qaoa_simulation with an angle vector whose length is not
\* divisible by p, or is not (num_terms + num_qubits)*p, fails with an error
\* and returns no expectation.
C5_LengthMismatchFails ==
    sim_out # NoOut /\ layout = "ma" /\ ~WellFormed => sim_out.kind # "value"

\* C7: after a closed-form evaluator call has returned, the graph (nodes,
\* edges, edge attributes) is what it was before the call.
C7_GraphUnchangedByEvaluation ==
    ana_out.kind = "value" => graph = graph_pre

\* out is p segments in the order of the layers of std, segment i being
\* g_i repeated E times then b_i repeated N times
LayoutOf(std, out, pp, E, N) ==
    /\ Len(out) = pp * (E + N)
    /\ \A i \in 0..(pp - 1) :
        /\ \A j \in 1..E : out[i * (E + N) + j] = std[2 * i + 1]
        /\ \A q \in 1..N : out[i * (E + N) + E + q] = std[2 * i + 2]

\* C9: the converter maps (g_1, b_1, ..., g_p, b_p) to p segments in input
\* order, segment i being g_i repeated E times then b_i repeated N times;
\* the output has length p*(E+N), so no input angle is dropped, and the
\* input vector is the same after the call as before.
C9_ConverterLayout ==
    [][conv_out = <<>> /\ conv_out' # <<>> /\ Len(angles) = 2 * p =>
          /\ angles' = angles
          /\ LayoutOf(angles, conv_out', p, Len(graph.edges), graph.n)]_vars

C9_Witness ==
    /\ conv_out # <<>>
    /\ p = 2
    /\ Len(graph.edges) = 2
    /\ graph.n = 3
    /\ angles[1] # angles[2]

\* the state that p layers leave, every phase layer using all rows of the
\* term table of the graph
FinalState ==
    LET all_cuv_vals == CutTable(graph)
        ma == IF layout = "ma" THEN angles
              ELSE convert_angles_qaoa_to_multi_angle(angles, Len(graph.edges), graph.n)
    IN  LayerLoop(ma, p, all_cuv_vals, get_neighbour_labelings(graph.n),
                  get_all_binary_labelings(graph.n), 0,
                  UniformState(Pow2(graph.n)), 0)

\* the sum over the rows inds[k], k >= from, of the expectation of that row
RECURSIVE SumOfRowExpectations(_, _, _, _)
SumOfRowExpectations(psi, all_cuv_vals, inds, from) ==
    IF from > Len(inds) THEN RZero
    ELSE RAdd(calc_expectation_diagonal(psi, all_cuv_vals[inds[from] + 1]),
              SumOfRowExpectations(psi, all_cuv_vals, inds, from + 1))

\* C10: the expectation returned is that of the sum of the rows the filter
\* names only, in the state evolved with all rows in every phase layer; no
\* filter counts as the filter naming every row.
C10_FilterOnlyInExpectation ==
    sim_out.kind = "value" /\ WellFormed =>
        sim_out.val =
            SumOfRowExpectations(FinalState, CutTable(graph),
                IF edge_inds = None THEN AllRows(CutTable(graph)) ELSE edge_inds, 1)

\* a two-layer run filtered to a strict subset of the rows whose result is
\* not the expectation of all rows
C10_Witness ==
    /\ sim_out.kind = "value"
    /\ WellFormed
    /\ p = 2
    /\ edge_inds # None
    /\ Len(edge_inds) < Len(graph.edges)
    /\ sim_out.val #
          SumOfRowExpectations(FinalState, CutTable(graph), AllRows(CutTable(graph)), 1)

----------------------------------------------------------------------------
(* Optimization Driver: qaoa_core.py optimize_qaoa_angles ("core") and   *)
(* src/optimization.py optimize_qaoa_angles ("opt")                       *)

\* optimization_attempts, and the default of num_restarts
optimization_attempts == 10

\* the restart budget handed to the "opt" driver is drawn from 1..MaxRestarts
MaxRestarts == 3

\* change_sign(func): the wrapped function returns -func(...)
change_sign(v) == RNeg(v)

\* assert not use_analytical or p == 1, "Cannot use analytical for p != 1"
AssertDisabled(analytical, pp) == TRUE

AssertAnalyticalDepth(analytical, pp) == ~analytical \/ pp = 1

\* sum([w for u, v, w in graph.edges.data('weight')])
RECURSIVE SumWeights(_, _)
SumWeights(g, i) ==
    IF i > Len(g.edges) THEN RZero ELSE RAdd(RInt(g.weight[i]), SumWeights(g, i + 1))

\* objective_max - objective_best < 1e-3
EarlyStop(obj_max, obj_best) ==
    RLess(RMul(RInt(1000), RSub(obj_max, obj_best)), ROne)

\* if -result.fun > objective_best, taken only for a converged result
AcceptsOnlyConverged(result, obj_best) ==
    result.success /\ RLess(obj_best, RNeg(result.fun))

\* if -result.fun > objective_best
Accepts(result, obj_best) == RLess(obj_best, RNeg(result.fun))

\* np.zeros(n)
Zeros(n) == [v |-> [k \in 1..n |-> 0], over_pi |-> FALSE]

\* vec / np.pi: the entries are k/4 instead of k*pi/4 (the same when all 0)
DivPi(vec) == [v |-> vec, over_pi |-> \E k \in 1..Len(vec) : vec[k] # 0]

\* Evaluator.get_evaluator_standard_maxcut_analytical(graph, None, use_multi_angle)
get_evaluator_standard_maxcut_analytical(g, use_multi_angle) ==
    [kind |-> "analytical", multi_angle |-> use_multi_angle,
     num_angles |-> IF use_multi_angle THEN Len(g.edges) + g.n ELSE 2]

\* len(target_vals).bit_length(): the number of binary digits of n
bit_length(n) == IF n = 0 THEN 0 ELSE Log2(n) + 1

\* evaluate_z_term(term, num_qubits): the value of the product of Z over the
\* qubits of the term, at every basis label
evaluate_z_term(term, num_qubits) ==
    [l \in 1..Pow2(num_qubits) |->
        IF Cardinality({q \in term : Bit(l - 1, q) = 1}) % 2 = 0 THEN 1 ELSE -1]

\* [set(edge) for edge in get_index_edge_list(graph)]
EdgeTerms(g) == [i \in 1..Len(g.edges) |-> {g.edges[i][1], g.edges[i][2]}]

\* np.array([evaluate_z_term(edge, len(graph)) for edge in get_index_edge_list(graph)])
DriverTermVals(g) == [i \in 1..Len(g.edges) |-> evaluate_z_term(EdgeTerms(g)[i], g.n)]

\* evaluate_graph_cut(graph, None): the weight of the cut at every basis label
evaluate_graph_cut(g) ==
    [l \in 1..Pow2(g.n) |-> RowSum(CutTable(g), AllRows(CutTable(g)), l, 1)]

\* [-1 / 2] * len(target_terms) + [len(target_terms) / 2]
TargetTermCoeffs(n) == [k \in 1..(n + 1) |-> IF k <= n THEN RDyadic(-1, 1) ELSE RDyadic(n, 1)]

\* a variant of get_evaluator_general that takes the number of binary digits
\* of len(target_vals) for the number of qubits
get_evaluator_general_no_decrement(target_vals, driver_term_vals, pp, use_multi_angle) ==
    LET num_qubits == bit_length(Len(target_vals))
    IN  [kind |-> "general", multi_angle |-> use_multi_angle,
         num_angles |-> IF use_multi_angle
                        THEN (Len(driver_term_vals) + num_qubits) * pp
                        ELSE 2 * pp]

\* Evaluator.get_evaluator_general(target_vals, driver_term_vals, p, use_multi_angle)
get_evaluator_general(target_vals, driver_term_vals, pp, use_multi_angle) ==
    LET num_qubits == bit_length(Len(target_vals)) - 1
    IN  [kind |-> "general", multi_angle |-> use_multi_angle,
         num_angles |-> IF use_multi_angle
                        THEN (Len(driver_term_vals) + num_qubits) * pp
                        ELSE 2 * pp]

\* Evaluator.get_evaluator_general_subsets(num_qubits, target_terms, target_coeffs,
\*                                         driver_terms, p, use_multi_angle)
get_evaluator_general_subsets(num_qubits, target_terms, target_coeffs, driver_terms, pp, use_multi_angle) ==
    [kind |-> "subsets", multi_angle |-> use_multi_angle,
     num_angles |-> IF use_multi_angle THEN (Len(driver_terms) + num_qubits) * pp
                                       ELSE 2 * pp]

\* qaoa_decorator(func, num_terms, num_qubits): the vector func receives
qaoa_decorator(ev, g, x) ==
    IF ev.multi_angle THEN x
    ELSE convert_angles_qaoa_to_multi_angle(x, Len(g.edges), g.n)

\* calc_expectation_general_qaoa(angles, driver_term_vals, p, target_vals)
calc_expectation_general_qaoa(x, driver_term_vals, pp, target_vals) ==
    LET num_qubits == bit_length(Len(target_vals)) - 1
    IN  calc_expectation_diagonal(
            LayerLoop(x, pp, driver_term_vals, get_neighbour_labelings(num_qubits),
                      get_all_binary_labelings(num_qubits), 0,
                      UniformState(Len(target_vals)), 0),
            target_vals)

\* the sum over the target terms from term k on of coeff * <Z-term>
RECURSIVE SubsetSum(_, _, _, _, _)
SubsetSum(psi, target_terms, target_coeffs, num_qubits, k) ==
    IF k > Len(target_terms) THEN target_coeffs[k]
    ELSE RAdd(RMul(target_coeffs[k],
                   calc_expectation_diagonal(psi,
                       evaluate_z_term(target_terms[k], num_qubits))),
              SubsetSum(psi, target_terms, target_coeffs, num_qubits, k + 1))

\* calc_expectation_general_qaoa_subsets(angles, subsets, target_coeffs, p)
calc_expectation_general_qaoa_subsets(x, num_qubits, target_terms, target_coeffs, driver_terms, pp) ==
    LET driver_term_vals ==
            [i \in 1..Len(driver_terms) |-> evaluate_z_term(driver_terms[i], num_qubits)]
        psi == LayerLoop(x, pp, driver_term_vals,
                         get_neighbour_labelings(num_qubits),
                         get_all_binary_labelings(num_qubits), 0,
                         UniformState(Pow2(num_qubits)), 0)
    IN  SubsetSum(psi, target_terms, target_coeffs, num_qubits, 1)

\* the function handed to optimize.minimize, at the angle vector x
Func(ev, g, pp, x) ==
    change_sign(
        IF ev.kind = "analytical"
        THEN IF ev.multi_angle THEN run_ma_qaoa_analytical_p1(x, g, NoneEdges)
                               ELSE run_qaoa_analytical_p1(x, g, NoneEdges)
        ELSE IF ev.kind = "general"
        THEN calc_expectation_general_qaoa(qaoa_decorator(ev, g, x), DriverTermVals(g),
                                           pp, evaluate_graph_cut(g))
        ELSE IF ev.kind = "subsets"
        THEN calc_expectation_general_qaoa_subsets(qaoa_decorator(ev, g, x), g.n,
                 EdgeTerms(g), TargetTermCoeffs(Len(g.edges)), EdgeTerms(g), pp)
        ELSE IF ev.multi_angle
             THEN run_ma_qaoa_simulation(x, pp, CutTable(g), get_neighbour_labelings(g.n),
                                         get_all_binary_labelings(g.n), None, 0)
             ELSE run_qaoa_simulation(x, pp, CutTable(g), get_neighbour_labelings(g.n),
                                      get_all_binary_labelings(g.n), None, 0))

\* The positions (0-based) of a multi-angle vector of length n that the
\* evaluator's function reads; -1 stands for a read outside the vector.
\* Closed form: gammas = angles[0:num_edges] is indexed at every edge and
\* betas = angles[num_edges:] at both ends of every edge.  Simulation: layer
\* i is angles[i*k:(i+1)*k] with k = int(n / p); its first num_terms entries
\* are the gammas, the rest the betas, indexed at every qubit.
ReadsMA(ev, g, pp, n) ==
    LET num_terms == Len(g.edges)
        At(k, hi) == IF k < hi THEN k ELSE -1
    IN  IF ev.kind = "analytical"
        THEN {At(i - 1, n) : i \in 1..num_terms}
             \cup {At(num_terms + g.edges[i][j], n) : i \in 1..num_terms, j \in 1..2}
        ELSE LET k == n \div pp
             IN  {i * k + t : i \in 0..(pp - 1), t \in 0..(num_terms - 1)}
                 \cup {IF num_terms + q < k THEN i * k + num_terms + q ELSE -1 :
                           i \in 0..(pp - 1), q \in 0..(g.n - 1)}

\* the positions of the vector of length n handed to the evaluator's function
\* that are read: in standard mode through the Angle Layout Converter, where
\* entry k of the converted vector is a copy of entry 2j or 2j + 1 of pair j
ReadSet(ev, g, pp, n) ==
    IF ev.multi_angle THEN ReadsMA(ev, g, pp, n)
    ELSE LET per_pair == Len(g.edges) + g.n
             src(k) == IF k = -1 THEN -1
                       ELSE 2 * (k \div per_pair)
                            + (IF k % per_pair < Len(g.edges) THEN 0 ELSE 1)
         IN  {src(k) : k \in ReadsMA(ev, g, pp, (n \div 2) * per_pair)}

\* the graph after the evaluator was last called at x: the closed-form
\* evaluator leaves its annotation on the edges
GraphAfter(ev, g, x) ==
    IF ev.kind # "analytical" THEN g
    ELSE set_edge_attributes(g,
            IF ev.multi_angle THEN x
            ELSE convert_angles_qaoa_to_multi_angle(x, Len(g.edges), g.n))

\* angle vectors of the evaluator's length: <<g0, b0, db>> stands for edge
\* angles g0 + layer and node angles b0 + db*q + layer
VecOf(ev, g, seed) ==
    LET layers == IF ev.multi_angle THEN ev.num_angles \div (Len(g.edges) + g.n)
                                    ELSE ev.num_angles \div 2
    IN  IF ev.multi_angle
        THEN AnglesMA(Len(g.edges), g.n, layers, seed[1], 0, seed[2], seed[3])
        ELSE AnglesStd(layers, seed[1], seed[2])

\* np.random.uniform(-np.pi, np.pi, n): the starts tried, every component
\* between -4 and 4 quarter turns of pi
StartSeeds == {<<-4, 4, 3>>, <<1, 1, 0>>}

Starts(n) == {[k \in 1..n |-> s[((k - 1) % 3) + 1]] : s \in StartSeeds}

\* for opt_ind in range(num_restarts): whether the loop has a next pass
InRangeInclusive(i, n) == i <= n

InRange(i, n) == i < n

\* optimize.minimize(func, next_angles): some point x with fun = func(x),
\* converged (success) or not
Results(ev, g, pp) ==
    {[x |-> VecOf(ev, g, s), fun |-> Func(ev, g, pp, VecOf(ev, g, s)), success |-> ok] :
        s \in {<<2, 1, -1>>, <<1, 1, -1>>, <<0, 0, 0>>, <<2, -1, 1>>}, ok \in BOOLEAN}

\* the evaluators a caller can build for the graph: the closed-form one
\* (src/optimization.py:145-160), or the simulation ones for p layers
\* (src/optimization.py:64-76 and 102-114)
Evaluators(g, pp, analytical, use_multi_angle) ==
    IF analytical
    THEN {get_evaluator_standard_maxcut_analytical(g, use_multi_angle)}
    ELSE {get_evaluator_general(evaluate_graph_cut(g), DriverTermVals(g), pp,
                                use_multi_angle),
          get_evaluator_general_subsets(g.n, EdgeTerms(g),
                                        TargetTermCoeffs(Len(g.edges)), EdgeTerms(g),
                                        pp, use_multi_angle)}

\* the function the core driver minimizes (qaoa_core.py:240-250), as an
\* evaluator with its length
CoreEvaluator(g, pp, analytical, multi_angle) ==
    [kind |-> IF analytical THEN "analytical" ELSE "simulation",
     multi_angle |-> multi_angle,
     num_angles |-> (IF multi_angle THEN Len(g.edges) + g.n ELSE 2) * pp]

\* the problem's known attainable maximum
ProblemMax == SumWeights(graph, 1)

InitDrv ==
    /\ \E wsel \in 1..MaxWeight :
          graph = [n |-> 2, edges |-> << <<0, 1>> >>, weight |-> <<wsel>>,
                   gamma |-> <<NoAttr>>]
    /\ graph_pre = graph
    /\ layout \in {"ma", "standard"}
    /\ drv \in {"core", "opt"}
    /\ IF drv = "core"
       THEN /\ use_analytical \in BOOLEAN
            /\ p \in 1..MaxP
            /\ num_restarts = optimization_attempts
       ELSE /\ use_analytical \in BOOLEAN
            /\ p \in (IF use_analytical THEN {1} ELSE 1..MaxP)
            /\ num_restarts \in 1..MaxRestarts
    /\ evaluator = NoEvaluator
    /\ outcomes = [ev \in (IF drv = "opt"
                            THEN Evaluators(graph, p, use_analytical, layout = "ma")
                            ELSE IF AssertAnalyticalDepth(use_analytical, p)
                            THEN {CoreEvaluator(graph, p, use_analytical, layout = "ma")}
                            ELSE {}) |-> Results(ev, graph, p)]
    /\ pc = "init"
    /\ opt_ind = 0
    /\ objective_max = RZero
    /\ objective_best = RZero
    /\ angles_best = NoAngles
    /\ ret = <<>>
    /\ calls = 0
    /\ late_calls = 0
    /\ last = NoLast
    /\ IdleEval
    /\ IdleConc
    /\ IdleAux

\* qaoa_core.py:234-253
CoreEnter ==
    /\ drv = "core"
    /\ pc = "init"
    /\ IF ~AssertAnalyticalDepth(use_analytical, p)
       THEN /\ pc' = "raised"
            /\ UNCHANGED <<evaluator, angles_best, objective_max, objective_best>>
       ELSE LET num_angles_per_layer == IF layout = "ma" THEN Len(graph.edges) + graph.n
                                                         ELSE 2
            IN  /\ evaluator' = CoreEvaluator(graph, p, use_analytical, layout = "ma")
                /\ angles_best' = Zeros(num_angles_per_layer * p)
                /\ objective_max' = SumWeights(graph, 1)
                /\ objective_best' = RZero
                /\ pc' = "loop"
    /\ UNCHANGED <<graph, graph_pre, p, layout, angles, edge_inds, sim_out, ana_out,
                   conv_out, drv, outcomes, use_analytical, num_restarts, opt_ind, ret, calls,
                   late_calls, last, concVars, auxVars>>

\* one pass of the loop body, qaoa_core.py:259-273
CoreIterate ==
    /\ drv = "core"
    /\ pc = "loop"
    /\ InRange(opt_ind, num_restarts)
    /\ ~EarlyStop(objective_max, objective_best)
    /\ \E next_angles \in Starts(Len(angles_best.v)), result \in outcomes[evaluator] :
          /\ IF Accepts(result, objective_best)
             THEN /\ objective_best' = RNeg(result.fun)
                  /\ angles_best' = DivPi(next_angles)
             ELSE UNCHANGED <<objective_best, angles_best>>
          /\ graph' = GraphAfter(evaluator, graph, result.x)
          /\ last' = [start |-> next_angles, x |-> result.x, fun |-> result.fun,
                      success |-> result.success, prev_best |-> objective_best]
    /\ calls' = calls + 1
    /\ late_calls' = late_calls + (IF EarlyStop(ProblemMax, objective_best) THEN 1 ELSE 0)
    /\ opt_ind' = opt_ind + 1
    /\ UNCHANGED <<graph_pre, p, layout, angles, edge_inds, sim_out, ana_out, conv_out,
                   drv, outcomes, use_analytical, num_restarts, evaluator, pc, objective_max, ret,
                   concVars, auxVars>>

\* the break at qaoa_core.py:256-257 or the end of the loop, then line 277
CoreReturn ==
    /\ drv = "core"
    /\ pc = "loop"
    /\ ~InRange(opt_ind, num_restarts) \/ EarlyStop(objective_max, objective_best)
    /\ ret' = <<objective_best>>
    /\ pc' = "done"
    /\ UNCHANGED <<evalVars, drv, outcomes, use_analytical, num_restarts, evaluator, opt_ind,
                   objective_max, objective_best, angles_best, calls, late_calls, last,
                   concVars, auxVars>>

\* the evaluator is built and the driver is entered with it
\* (src/optimization.py:185-186)
OptEnter ==
    /\ drv = "opt"
    /\ pc = "init"
    /\ evaluator' \in Evaluators(graph, p, use_analytical, layout = "ma")
    /\ angles_best' = Zeros(evaluator'.num_angles)
    /\ objective_best' = RZero
    /\ pc' = "loop"
    /\ UNCHANGED <<evalVars, drv, outcomes, use_analytical, num_restarts, opt_ind, objective_max,
                   ret, calls, late_calls, last, concVars, auxVars>>

\* one pass of the loop body, src/optimization.py:188-192
OptIterate ==
    /\ drv = "opt"
    /\ pc = "loop"
    /\ InRange(opt_ind, num_restarts)
    /\ \E next_angles \in Starts(Len(angles_best.v)), result \in outcomes[evaluator] :
          /\ IF Accepts(result, objective_best)
             THEN /\ objective_best' = RNeg(result.fun)
                  /\ angles_best' = [v |-> result.x, over_pi |-> FALSE]
             ELSE UNCHANGED <<objective_best, angles_best>>
          /\ graph' = GraphAfter(evaluator, graph, result.x)
          /\ last' = [start |-> next_angles, x |-> result.x, fun |-> result.fun,
                      success |-> result.success, prev_best |-> objective_best]
    /\ calls' = calls + 1
    /\ late_calls' = late_calls + (IF EarlyStop(ProblemMax, objective_best) THEN 1 ELSE 0)
    /\ opt_ind' = opt_ind + 1
    /\ UNCHANGED <<graph_pre, p, layout, angles, edge_inds, sim_out, ana_out, conv_out,
                   drv, outcomes, use_analytical, num_restarts, evaluator, pc, objective_max, ret,
                   concVars, auxVars>>

\* src/optimization.py:196
OptReturn ==
    /\ drv = "opt"
    /\ pc = "loop"
    /\ ~InRange(opt_ind, num_restarts)
    /\ ret' = <<objective_best, angles_best>>
    /\ pc' = "done"
    /\ UNCHANGED <<evalVars, drv, outcomes, use_analytical, num_restarts, evaluator, opt_ind,
                   objective_max, objective_best, angles_best, calls, late_calls, last,
                   concVars, auxVars>>

Next == CoreEnter \/ CoreIterate \/ CoreReturn \/ OptEnter \/ OptIterate \/ OptReturn

Spec == InitDrv /\ [][Next]_vars

----------------------------------------------------------------------------
(* Two invocations of the closed-form evaluator on one graph object, run  *)
(* by two threads.  A thread may be preempted between the annotation      *)
(* (qaoa_core.py:174, src/analytical.py:54) and any pass of the loop over *)
(* edge_list (qaoa_core.py:176-195, src/analytical.py:56-75).             *)

Calls == {1, 2}

InitConc ==
    /\ \E shape \in {s \in Shapes : s.n < 4}, wsel \in 0..(MaxWeight - 1) :
          graph = MakeGraph(shape, wsel)
    /\ graph_pre = graph
    /\ p = 1
    /\ layout = "ma"
    /\ c_angles \in [Calls -> {AnglesMA(Len(graph.edges), graph.n, 1, g0, 1, b0, 1) :
                                  g0 \in AngleSet, b0 \in AngleSet}]
    /\ c_pc = [i \in Calls |-> "start"]
    /\ c_k = [i \in Calls |-> 1]
    /\ c_obj = [i \in Calls |-> RZero]
    /\ IdleEval
    /\ IdleDrv
    /\ IdleAux

\* gammas = ...; betas = ...; nx.set_edge_attributes(...); objective = 0
Annotate(i) ==
    /\ c_pc[i] = "start"
    /\ graph' = set_edge_attributes(graph, c_angles[i])
    /\ c_pc' = [c_pc EXCEPT ![i] = "loop"]
    /\ c_obj' = [c_obj EXCEPT ![i] = RZero]
    /\ UNCHANGED <<graph_pre, p, layout, angles, edge_inds, sim_out, ana_out, conv_out,
                   drvVars, auxVars, c_angles, c_k>>

\* one pass of the loop over edge_list: objective += cuv
EdgeStep(i) ==
    /\ c_pc[i] = "loop"
    /\ c_k[i] <= Len(graph.edges)
    /\ LET betas == Slice(c_angles[i], Len(graph.edges), Len(c_angles[i]))
           uv == graph.edges[c_k[i]]
       IN  c_obj' = [c_obj EXCEPT ![i] = RAdd(@, EdgeTerm(graph, betas, uv[1], uv[2]))]
    /\ c_k' = [c_k EXCEPT ![i] = @ + 1]
    /\ UNCHANGED <<evalVars, drvVars, auxVars, c_pc, c_angles>>

\* return objective
Finish(i) ==
    /\ c_pc[i] = "loop"
    /\ c_k[i] > Len(graph.edges)
    /\ c_pc' = [c_pc EXCEPT ![i] = "done"]
    /\ UNCHANGED <<evalVars, drvVars, auxVars, c_angles, c_k, c_obj>>

NextConc == \E i \in Calls : Annotate(i) \/ EdgeStep(i) \/ Finish(i)

SpecConc == InitConc /\ [][NextConc]_vars

----------------------------------------------------------------------------
(* Properties of concurrent closed-form calls (checked under SpecConc) *)

\* C6: two invocations of the closed-form evaluator on the same graph
\* object with different angle vectors, interleaved in any way, each return
\* the value they return when run alone.
C6_InterleavedCallsIndependent ==
    \A i \in DOMAIN c_pc :
        c_pc[i] = "done" =>
            c_obj[i] = run_ma_qaoa_analytical_p1(c_angles[i], graph_pre, NoneEdges)

----------------------------------------------------------------------------
(* Properties of the optimization drivers (checked under Spec) *)

Improved == last # NoLast /\ RLess(last.prev_best, RNeg(last.fun))

\* C2: once the best objective is within 1e-3 of the sum of the edge
\* weights, the local optimizer is not invoked again.
C2_NoRestartAfterMaximum == late_calls = 0

\* C3: the driver returns the pair (best objective, best angles), and the
\* best angles recorded by an improving restart are result.x of that restart.
C3_RecordsMinimizingAngles ==
    /\ Improved => angles_best = [v |-> last.x, over_pi |-> FALSE]
    /\ pc = "done" => Len(ret) = 2 /\ ret[1] = objective_best /\ ret[2] = angles_best

\* C4: analytical evaluation requested with p # 1 fails before anything is
\* built: no evaluator, no optimizer call, nothing returned; and every
\* analytical evaluator that exists has the arity of depth 1.
C4_AnalyticalOnlyAtDepth1 ==
    /\ use_analytical /\ p # 1 /\ pc # "init" =>
          pc = "raised" /\ evaluator = NoEvaluator /\ calls = 0 /\ ret = <<>>
    /\ evaluator.kind = "analytical" =>
          p = 1 /\ evaluator.num_angles = NumAngles(layout, graph, 1)

C4_Witness == pc = "raised" /\ use_analytical /\ p = 2 /\ drv = "core"

\* C8: a restart whose optimizer run did not converge does not make the
\* driver raise; its result is compared with the running best like any
\* other (kept if better, dropped if not), and every pass of the loop makes
\* exactly one optimizer call, so a failed run is never retried.
C8_FailedRestartNotFatal ==
    /\ pc = "raised" => calls = 0
    /\ calls = opt_ind
    /\ last # NoLast =>
          objective_best = IF RLess(last.prev_best, RNeg(last.fun))
                           THEN RNeg(last.fun) ELSE last.prev_best

\* a second restart that did not converge and still improved the best
C8_Witness ==
    /\ calls >= 2
    /\ ~last.success
    /\ Improved
    /\ pc = "done"

----------------------------------------------------------------------------
(* Evaluator arity *)

\* C11: the evaluator declares num_angles = (driver terms + qubits) * p in
\* multi-angle mode and 2 * p in standard mode; that is the one length at
\* which its function reads every position of the vector and nothing
\* outside it; and every start handed to the optimizer, and every point the
\* optimizer evaluates, has exactly that length.
C11_DeclaredArityIsConsumed ==
    evaluator # NoEvaluator =>
        /\ evaluator.num_angles = IF evaluator.multi_angle
                                  THEN (Len(graph.edges) + graph.n) * p
                                  ELSE 2 * p
        /\ \A n \in 0..(evaluator.num_angles + 2) :
              (ReadSet(evaluator, graph, p, n) = 0..(n - 1)) <=> (n = evaluator.num_angles)
        /\ last # NoLast =>
              /\ Len(last.start) = evaluator.num_angles
              /\ Len(last.x) = evaluator.num_angles

\* a two-layer multi-angle simulation evaluator that the driver has called
C11_Witness ==
    /\ drv = "opt"
    /\ evaluator # NoEvaluator
    /\ evaluator.kind = "general"
    /\ evaluator.multi_angle
    /\ p = 2
    /\ last # NoLast
    /\ Len(last.x) = 6

----------------------------------------------------------------------------
(* run_ma_qaoa_simulation, statement by statement (qaoa_core.py:119-127), *)
(* with apply_ub_individual unfolded into its passes (qaoa_core.py:86-91)  *)

\* int(len(angles) / p)
AnglesPerLayer(vec, pp) == Len(vec) \div pp

\* a variant of the layer slice that hands every layer the first slice
LayerAnglesFirst(vec, pp, i) == Slice(vec, 0, AnglesPerLayer(vec, pp))

\* angles[i * num_angles_per_layer:(i + 1) * num_angles_per_layer]
LayerAngles(vec, pp, i) ==
    Slice(vec, i * AnglesPerLayer(vec, pp), (i + 1) * AnglesPerLayer(vec, pp))

\* the positions (0-based) of the entries of a vector
Positions(vec) == [k \in 1..Len(vec) |-> k - 1]

\* the positions of angles that layer_angles[:num_terms] of layer i holds
GammaPositions(vec, pp, num_terms, i) ==
    Slice(LayerAngles(Positions(vec), pp, i), 0, num_terms)

\* the positions of angles that layer_angles[num_terms:] of layer i holds
BetaPositions(vec, pp, num_terms, i) ==
    LET layer == LayerAngles(Positions(vec), pp, i)
    IN  Slice(layer, num_terms, Len(layer))

\* the entries of vec at the positions pos
Take(vec, pos) == [k \in 1..Len(pos) |-> vec[pos[k] + 1]]

\* neighbours[:, i] and basis_bin[:, i] for qubit q (0-based)
Column(table, q) == [l \in 1..Len(table) |-> table[l][q + 1]]

\* inputs: a multi-angle vector of the prescribed length for the graph; the
\* four-node graph is run at p = 1
InitSim ==
    /\ \E shape \in Shapes : graph = MakeGraph(shape, 0)
    /\ graph_pre = graph
    /\ p \in 1..MaxP
    /\ p > 1 => graph.n < 4
    /\ layout = "ma"
    /\ \E g0 \in AngleSet, b0 \in AngleSet, d \in 0..1 :
          angles = AnglesMA(Len(graph.edges), graph.n, p, g0, d, b0, d)
    /\ edge_inds = None
    /\ sim_out = NoOut
    /\ ana_out = NoOut
    /\ conv_out = <<>>
    /\ IdleDrv
    /\ IdleConc
    /\ IdleAux

\* psi = np.ones(size) / np.sqrt(size); num_angles_per_layer = ...
SimStart ==
    /\ s_pc = "idle"
    /\ s_psi' = UniformState(Pow2(graph.n))
    /\ s_layer' = 0
    /\ s_pc' = "layer"
    /\ UNCHANGED <<evalVars, drvVars, concVars, zVars, tVars, s_arg, s_unitary, s_ub_in, s_qubit,
                   s_trace, s_out>>

\* the head of the loop over the layers: either the next layer is sliced and
\* its phase layer applied, and apply_ub_individual is entered with res = psi,
\* or the loop is left
SimLayer ==
    /\ s_pc = "layer"
    /\ IF s_layer < p
       THEN LET gpos == GammaPositions(angles, p, Len(graph.edges), s_layer)
            IN  /\ s_psi' = apply_uc(CutTable(graph), Take(angles, gpos), s_psi)
                /\ s_ub_in' = s_psi'
                /\ s_qubit' = 0
                /\ s_trace' = Append(s_trace, [op |-> "uc", layer |-> s_layer,
                                               qubit |-> -1, reads |-> gpos])
                /\ s_pc' = "ub"
       ELSE /\ s_pc' = "expect"
            /\ UNCHANGED <<s_psi, s_ub_in, s_qubit, s_trace>>
    /\ UNCHANGED <<evalVars, drvVars, concVars, zVars, tVars, s_arg, s_unitary, s_layer, s_out>>

\* one pass of the loop of apply_ub_individual; the call leaves its argument
\* as it was (no statement of apply_unitary_one_qubit writes psi)
SimPass ==
    /\ s_pc = "ub"
    /\ s_qubit < graph.n
    /\ LET bpos == BetaPositions(angles, p, Len(graph.edges), s_layer)
           exp_x == get_exp_x(Take(angles, bpos)[s_qubit + 1])
       IN  /\ s_psi' = apply_unitary_one_qubit(exp_x, s_psi,
                           Column(get_neighbour_labelings(graph.n), s_qubit),
                           Column(get_all_binary_labelings(graph.n), s_qubit))
           /\ s_unitary' = exp_x
           /\ s_trace' = Append(s_trace, [op |-> "ub", layer |-> s_layer,
                                          qubit |-> s_qubit,
                                          reads |-> <<bpos[s_qubit + 1]>>])
    /\ s_arg' = s_psi
    /\ s_qubit' = s_qubit + 1
    /\ UNCHANGED <<evalVars, drvVars, concVars, zVars, tVars, s_pc, s_ub_in, s_layer, s_out>>

\* return res, and psi = ... of the layer; the loop goes to the next layer
SimMixerReturn ==
    /\ s_pc = "ub"
    /\ s_qubit >= graph.n
    /\ s_layer' = s_layer + 1
    /\ s_pc' = "layer"
    /\ UNCHANGED <<evalVars, drvVars, concVars, zVars, tVars, s_psi, s_arg, s_unitary, s_ub_in,
                   s_qubit, s_trace, s_out>>

\* return calc_expectation_diagonal(psi, np.sum(all_cuv_vals[edge_inds, :], 0))
SimExpect ==
    /\ s_pc = "expect"
    /\ s_out' = Value(calc_expectation_diagonal(s_psi,
                    [l \in 1..Len(s_psi) |->
                        RowSum(CutTable(graph), AllRows(CutTable(graph)), l, 1)]))
    /\ s_pc' = "done"
    /\ UNCHANGED <<evalVars, drvVars, concVars, zVars, tVars, s_psi, s_arg, s_unitary, s_ub_in,
                   s_layer, s_qubit, s_trace>>

NextSim == SimStart \/ SimLayer \/ SimPass \/ SimMixerReturn \/ SimExpect

SpecSim == InitSim /\ [][NextSim]_vars

\* the statement-by-statement run returns what the function returns
StepwiseAgrees ==
    s_pc = "done" =>
        s_out = Value(run_ma_qaoa_simulation(angles, p, CutTable(graph),
                          get_neighbour_labelings(graph.n),
                          get_all_binary_labelings(graph.n), None, 0))

\* np.vdot(psi, psi) over the labels lo..hi: the squared norm, added up pairwise
RECURSIVE Norm2(_, _, _)
Norm2(psi, lo, hi) ==
    IF lo > hi THEN RZero
    ELSE IF lo = hi THEN CMul(CConj(psi[lo]), psi[lo]).re
    ELSE RAdd(Norm2(psi, lo, (lo + hi) \div 2), Norm2(psi, ((lo + hi) \div 2) + 1, hi))

\* C12: the state vector has norm 1 from its creation on: after every phase
\* layer and after every pass of the mixer over one qubit.
C12_NormPreserved ==
    s_pc # "idle" => Norm2(s_psi, 1, Len(s_psi)) = ROne

\* a non-uniform state in the second layer, after a pass over one qubit
C12_Witness ==
    /\ s_pc = "ub"
    /\ s_layer = 1
    /\ s_qubit = 2
    /\ s_psi # UniformState(Pow2(graph.n))

----------------------------------------------------------------------------
(* The generalized first-order evaluators, src/analytical.py:14-37 *)

\* get_index_edge_list(graph): the edges as pairs of node indices
get_index_edge_list(g) == g.edges

\* the loop of calc_expectation_general_analytical_z1 from edge k on:
\* gammas = angles[edge], betas = angles[edge + len(graph)]
RECURSIVE Z1Loop(_, _, _)
Z1Loop(vec, g, k) ==
    IF k > Len(g.edges) THEN RZero
    ELSE LET edge == get_index_edge_list(g)[k]
             gammas == <<vec[edge[1] + 1], vec[edge[2] + 1]>>
             betas == <<vec[edge[1] + g.n + 1], vec[edge[2] + g.n + 1]>>
         IN  RAdd(RMul(RDyadic(1, 1),
                    RMul(sin(2 * betas[1]),
                      RMul(sin(2 * betas[2]),
                        RMul(sin(2 * gammas[1]), sin(2 * gammas[2]))))),
                  Z1Loop(vec, g, k + 1))

calc_expectation_general_analytical_z1(vec, g) ==
    RSub(RDyadic(Len(g.edges), 1), Z1Loop(vec, g, 1))

\* a variant of the reduced evaluator that puts pi/2 where the source has pi/4
calc_expectation_general_analytical_z1_reduced_half_pi(vec, g) ==
    calc_expectation_general_analytical_z1(Repeat(2, g.n) \o vec, g)

\* full_angles = np.array([np.pi / 4] * len(graph) + list(angles))
calc_expectation_general_analytical_z1_reduced(vec, g) ==
    calc_expectation_general_analytical_z1(Repeat(1, g.n) \o vec, g)

\* inputs: a graph and one free angle per node
InitZ1 ==
    /\ \E shape \in Shapes : graph = MakeGraph(shape, 0)
    /\ graph_pre = graph
    /\ p = 1
    /\ layout = "ma"
    /\ z_g \in [1..graph.n -> AngleSet]
    /\ z_red = NoOut
    /\ z_full = NoOut
    /\ IdleEval
    /\ IdleDrv
    /\ IdleConc
    /\ IdleSim
    /\ IdleT

\* calc_expectation_general_analytical_z1_reduced(g, graph)
RunReduced ==
    /\ z_red = NoOut
    /\ z_red' = Value(calc_expectation_general_analytical_z1_reduced(z_g, graph))
    /\ UNCHANGED <<evalVars, drvVars, concVars, simVars, tVars, z_g, z_full>>

\* calc_expectation_general_analytical_z1 on the vector with the gammas g in
\* front and every beta pi/4 behind them
RunFull ==
    /\ z_full = NoOut
    /\ z_full' = Value(calc_expectation_general_analytical_z1(
                           z_g \o Repeat(1, graph.n), graph))
    /\ UNCHANGED <<evalVars, drvVars, concVars, simVars, tVars, z_g, z_red>>

NextZ1 == RunReduced \/ RunFull

SpecZ1 == InitZ1 /\ [][NextZ1]_vars

\* num_edges / 2 minus the sum over the edges from k on of sin(2 g_u) sin(2 g_v) / 2
RECURSIVE ReducedFormula(_, _, _)
ReducedFormula(vec, g, k) ==
    IF k > Len(g.edges) THEN RDyadic(Len(g.edges), 1)
    ELSE RSub(ReducedFormula(vec, g, k + 1),
              RMul(RDyadic(1, 1),
                   RMul(sin(2 * vec[g.edges[k][1] + 1]), sin(2 * vec[g.edges[k][2] + 1]))))

\* C13: the reduced evaluator at g returns what the full evaluator returns
\* on the vector with gammas g and every beta pi/4, and that value is
\* num_edges/2 minus the sum over edges (u, v) of sin(2 g_u) sin(2 g_v) / 2.
C13_ReducedEqualsFullAtQuarterPi ==
    /\ z_red # NoOut => z_red = Value(ReducedFormula(z_g, graph, 1))
    /\ z_red # NoOut /\ z_full # NoOut => z_red = z_full

\* both evaluated on the triangle, at angles where some edge term is not 0
C13_Witness ==
    /\ z_red # NoOut
    /\ z_full # NoOut
    /\ Len(graph.edges) = 3
    /\ z_red.val # RDyadic(3, 1)

----------------------------------------------------------------------------
(* Termination of the driver *)

\* The driver is one thread running to completion: a statement that can be
\* executed is executed, and optimize.minimize is taken to return.
SpecLive == Spec /\ WF_vars(Next)

\* C14: at most num_restarts optimizer calls are made, one per pass of the
\* loop, each from a start of length num_angles drawn in that pass with every
\* component between -pi and pi (-4 to 4 quarters of pi); and an invocation
\* that passes the entry check returns.
C14_BoundedRestartsThenReturn ==
    /\ [](/\ calls <= num_restarts
          /\ calls = opt_ind
          /\ last # NoLast =>
                /\ Len(last.start) = evaluator.num_angles
                /\ \A k \in 1..Len(last.start) : last.start[k] \in (-4)..4)
    /\ (AssertAnalyticalDepth(use_analytical, p) => <>(pc = "done"))

\* a driver that has used its whole budget and returned
C14_Witness ==
    /\ pc = "done"
    /\ calls = num_restarts
    /\ calls >= 2
    /\ last.start = <<-4, 4, 3>>

----------------------------------------------------------------------------
(* The mixer passes *)

\* the last operation applied was a pass of the mixer over one qubit
AfterPass == s_trace # <<>> /\ s_trace[Len(s_trace)].op = "ub"

\* C15: after a pass over qubit q with the rotation U, every amplitude is
\* old[label] * U[bit, bit] + old[neighbour(label, q)] * U[1 - bit, bit],
\* with old the vector handed to the pass, which is still what it was when
\* the mixer layer handed it over.
C15_PassReadsSnapshot ==
    AfterPass =>
        LET q == s_trace[Len(s_trace)].qubit
            neighbour == Column(get_neighbour_labelings(graph.n), q)
            bit == Column(get_all_binary_labelings(graph.n), q)
        IN  /\ \A l \in 1..Len(s_psi) :
                  s_psi[l] = CAdd(CMul(s_arg[l], s_unitary[bit[l]][bit[l]]),
                                  CMul(s_arg[neighbour[l] + 1],
                                       s_unitary[1 - bit[l]][bit[l]]))
            /\ Len(s_psi) = Len(s_arg)
            /\ q = 0 => s_arg = s_ub_in

\* a pass in the second layer with a rotation that mixes the two amplitudes
\* of a pair, over a neighbour table that is an involution
C15_Witness ==
    /\ AfterPass
    /\ s_layer = 1
    /\ s_qubit = 2
    /\ s_unitary[0][0] # CZero
    /\ s_unitary[0][1] # CZero
    /\ s_psi # s_arg
    /\ \A l \in 1..Len(s_psi) :
          /\ Column(get_neighbour_labelings(graph.n), 1)[l] + 1 # l
          /\ Column(get_neighbour_labelings(graph.n), 1)[
                 Column(get_neighbour_labelings(graph.n), 1)[l] + 1] + 1 = l

\* the sequence of passes over the qubits order[k], ..., order[Len(order)]
RECURSIVE PassesInOrder(_, _, _, _, _)
PassesInOrder(order, k, betas, psi, n) ==
    IF Len(psi) = 0 \/ k > Len(order) THEN psi
    ELSE PassesInOrder(order, k + 1, betas,
             apply_unitary_one_qubit(get_exp_x(betas[order[k] + 1]), psi,
                 Column(get_neighbour_labelings(n), order[k]),
                 Column(get_all_binary_labelings(n), order[k])),
             n)

\* the orders in which the qubits 0..n-1 can be taken
Orders(n) == {f \in [1..n -> 0..(n - 1)] : \A i, j \in 1..n : f[i] = f[j] => i = j}

\* the mixer layer of the current layer is complete
MixerDone == s_pc = "ub" /\ s_qubit = graph.n

\* C16: the passes of one mixer layer, taken over the qubits in any order,
\* give the state that apply_ub_individual gives.
C16_PassesCommute ==
    MixerDone =>
        LET betas == Take(angles, BetaPositions(angles, p, Len(graph.edges), s_layer))
            node_order == apply_ub_individual(betas, s_ub_in,
                              get_neighbour_labelings(graph.n),
                              get_all_binary_labelings(graph.n), 0)
        IN  /\ s_psi = node_order
            /\ \A order \in Orders(graph.n) :
                  PassesInOrder(order, 1, betas, s_ub_in, graph.n) = node_order

\* the mixer of the second layer on the triangle, with three different
\* rotations, none of them the identity up to sign
C16_Witness ==
    /\ MixerDone
    /\ graph.n = 3
    /\ s_layer = 1
    /\ s_psi # s_ub_in
    /\ LET betas == Take(angles, BetaPositions(angles, p, Len(graph.edges), s_layer))
       IN  /\ betas[1] # betas[2]
           /\ betas[2] # betas[3]
           /\ \A k \in 1..3 : betas[k] % 4 # 0

----------------------------------------------------------------------------
(* The order of the layers and the slicing of the angle vector *)

\* operation m (1-based) of a run on num_terms terms and num_qubits qubits
\* under the multi-angle layout contract, k = num_terms + num_qubits: layer
\* i is a phase layer on positions [i*k, i*k + num_terms), then one pass per
\* qubit q on position i*k + num_terms + q
ContractOperation(m, num_terms, num_qubits) ==
    LET k == num_terms + num_qubits
        i == (m - 1) \div (num_qubits + 1)
        r == (m - 1) % (num_qubits + 1)
    IN  IF r = 0
        THEN [op |-> "uc", layer |-> i, qubit |-> -1,
              reads |-> [t \in 1..num_terms |-> i * k + t - 1]]
        ELSE [op |-> "ub", layer |-> i, qubit |-> r - 1,
              reads |-> <<i * k + num_terms + r - 1>>]

\* C17: the run starts from the uniform superposition; its operations are,
\* in order, those of layers 0, 1, ..., each a phase layer followed by the
\* mixer, taking the angles from the positions the layout contract gives;
\* when the layers are done there were exactly p of them and every position
\* of the angle vector was used exactly once.
C17_LayersInOrder ==
    /\ (s_pc = "layer" /\ s_layer = 0) =>
          /\ Len(s_psi) = Pow2(graph.n)
          /\ \A l \in 1..Len(s_psi) : s_psi[l] = Cx(InvSqrtPow2(graph.n), RZero)
          /\ s_trace = <<>>
    /\ \A m \in 1..Len(s_trace) :
          s_trace[m] = ContractOperation(m, Len(graph.edges), graph.n)
    /\ s_pc \in {"expect", "done"} =>
          /\ Len(s_trace) = p * (graph.n + 1)
          /\ \A pos \in 0..(Len(angles) - 1) :
                Cardinality({mj \in (1..Len(s_trace)) \X (1..Len(graph.edges)) :
                                /\ mj[2] <= Len(s_trace[mj[1]].reads)
                                /\ s_trace[mj[1]].reads[mj[2]] = pos}) = 1

\* a finished run of two layers on the triangle
C17_Witness ==
    /\ s_pc = "done"
    /\ p = 2
    /\ graph.n = 3
    /\ Len(graph.edges) = 3
    /\ Len(s_trace) = 8
    /\ s_trace[5].reads = <<6, 7, 8>>

----------------------------------------------------------------------------
(* The products of the closed form *)

\* the product of cos(gamma(u, m)) over the nodes m of the set S
CosProduct(g, u, S) ==
    RProd([k \in 1..Cardinality(S) |-> cos(GammaOf(g, u, SetSeq(S)[k]))])

\* the value for the edge (u, v), with every product taken over the set the
\* formula names: the main term over all of d and all of e, the triangle
\* correction over d - f and e - f and present only when f is not empty
FormulaTerm(g, betas, u, v) ==
    LET w == g.weight[EdgeIndex(g, u, v)]
        d == Adj(g, u) \ {v}
        e == Adj(g, v) \ {u}
        f == d \cap e
        fs == SetSeq(f)
        plus == RProd([k \in 1..Len(fs) |->
                    cos(GammaOf(g, u, fs[k]) + GammaOf(g, v, fs[k]))])
        minus == RProd([k \in 1..Len(fs) |->
                    cos(GammaOf(g, u, fs[k]) - GammaOf(g, v, fs[k]))])
        correction ==
            IF f = {} THEN RZero
            ELSE RMul(RDyadic(w, 2),
                   RMul(RMul(sin(2 * betas[u + 1]), sin(2 * betas[v + 1])),
                     RMul(RMul(CosProduct(g, u, d \ f), CosProduct(g, v, e \ f)),
                          RSub(plus, minus))))
        main ==
            RMul(RDyadic(w, 1),
              RMul(sin(GammaOf(g, u, v)),
                RAdd(RMul(RMul(sin(2 * betas[u + 1]), cos(2 * betas[v + 1])),
                          CosProduct(g, u, d)),
                     RMul(RMul(cos(2 * betas[u + 1]), sin(2 * betas[v + 1])),
                          CosProduct(g, v, e)))))
    IN  RAdd(RDyadic(w, 1), RAdd(correction, main))

\* the sum of FormulaTerm over the edges edge_list[k], ...
RECURSIVE FormulaSum(_, _, _, _)
FormulaSum(g, betas, edge_list, k) ==
    IF k > Len(edge_list) THEN RZero
    ELSE RAdd(FormulaTerm(g, betas, edge_list[k][1], edge_list[k][2]),
              FormulaSum(g, betas, edge_list, k + 1))

\* C18: the closed-form evaluator returns the sum over the evaluated edges of
\* the term whose main part carries cos(gamma(u, m)) once for every m in d
\* and cos(gamma(v, m)) once for every m in e, and whose triangle correction,
\* present only when f is not empty, carries the products over d - f and
\* e - f only.
C18_ProductsOverNeighbours ==
    ana_out.kind = "value" =>
        LET ma == IF layout = "ma" THEN angles
                  ELSE convert_angles_qaoa_to_multi_angle(angles, Len(graph.edges),
                                                          graph.n)
            betas == Slice(ma, Len(graph.edges), Len(ma))
            edge_list == EdgeList(graph, EdgeListOf(graph, edge_inds))
        IN  ana_out.val = FormulaSum(graph, betas, edge_list, 1)

\* the closed form evaluated for the edge (0, 1) of a graph in which 0 and 1
\* share the neighbour 2, with cos(gamma(0, 2)) and cos(gamma(1, 2)) other
\* than 1 and a main term whose other factors are not 0
C18_Witness ==
    /\ ana_out.kind = "value"
    /\ layout = "ma"
    /\ Len(graph.edges) >= 3
    /\ edge_inds = <<0>>
    /\ CosProduct(graph, 0, {2}) # ROne
    /\ CosProduct(graph, 1, {2}) # ROne
    /\ sin(GammaOf(graph, 0, 1)) # RZero
    /\ LET betas == Slice(angles, Len(graph.edges), Len(angles))
       IN  /\ sin(2 * betas[1]) # RZero
           /\ cos(2 * betas[2]) # RZero

----------------------------------------------------------------------------
(* The returned pair *)

\* C19: what the driver returns is consistent: the best objective is the
\* value the evaluator takes at the best angle vector, objective_best =
\* -evaluator.func(angles_best), whatever the restarts came back with.
\* Stated for the evaluators whose function is in the sources, and for best
\* vectors that are k*pi/4 entry by entry.
C19_ReturnedPairConsistent ==
    (pc = "done" /\ evaluator.kind \in {"analytical", "simulation"}
                 /\ ~angles_best.over_pi) =>
        objective_best = RNeg(Func(evaluator, graph, p, angles_best.v))

\* ---------------------------------------------------------------------------
\* data_processing.calculate_extra: calculate_edge_diameter, calculate_min_p
\*
\* A DataFrame is [columns |-> the column names in column order,
\* rows |-> one sequence of cells per row, aligned with the columns].
\* A column name is the sequence of its characters.  A cell is a float:
\* Fin(v) or Inf.  Approximation-ratio cells are held in ten-thousandths
\* (0.9995 is Fin(9995)); the other cells hold whole numbers.
\* ---------------------------------------------------------------------------

\* the rows a table has at most
MaxRows == 2

Fin(v) == [inf |-> FALSE, v |-> v]

\* np.inf
Inf == [inf |-> TRUE, v |-> 0]

\* x - y for a finite y; np.inf - y is np.inf
FSub(x, y) == IF x.inf THEN Inf ELSE Fin(x.v - y.v)

\* 0.9995, in ten-thousandths
Threshold == 9995

\* cell > 0.9995
Exceeds(cell) == cell.inf \/ cell.v > Threshold

Digits == <<"0", "1", "2", "3", "4", "5", "6", "7", "8", "9">>

\* c.isdigit() for one character
isdigit(c) == \E d \in 1..10 : Digits[d] = c

DigitVal(c) == (CHOOSE d \in 1..10 : Digits[d] = c) - 1

\* int(chars) for a sequence of digits
RECURSIVE int(_)
int(chars) ==
    IF Len(chars) = 0 THEN 0
    ELSE 10 * int(SubSeq(chars, 1, Len(chars) - 1)) + DigitVal(chars[Len(chars)])

\* col.split('_')[1]: the characters between the first underscore and the
\* next one (or the end of the name)
SplitField1(col) ==
    LET us == {k \in 1..Len(col) : col[k] = "_"}
        first == CHOOSE k \in us : \A j \in us : k <= j
        later == {k \in us : k > first}
        stop == IF later = {} THEN Len(col) + 1
                ELSE CHOOSE k \in later : \A j \in later : k <= j
    IN  SubSeq(col, first + 1, stop - 1)

\* the result column of depth k, 'p_<k>'
ResultColumn(k) == <<"p", "_", Digits[k + 1]>>

\* 'p_1_nit', a column next to the results that is no result column
NitColumn == <<"p", "_", "1", "_", "n", "i", "t">>

EdgeDiameterColumn == <<"e", "d", "g", "e", "_", "d", "i", "a", "m", "e", "t", "e", "r">>

MinPColumn == <<"m", "i", "n", "_", "p">>

PRelEdColumn == <<"p", "_", "r", "e", "l", "_", "e", "d">>

\* the depths the table has results for
Depths == {1, 2, 3}

\* the column orders of the input tables: the result columns in any order,
\* with or without 'p_1_nit' in front
ColumnLists ==
    LET perms == {f \in [1..Cardinality(Depths) -> Depths] :
                     \A i, j \in 1..Cardinality(Depths) : f[i] = f[j] => i = j}
    IN  {[k \in 1..Cardinality(Depths) |-> ResultColumn(f[k])] : f \in perms}
        \cup {<<NitColumn>> \o [k \in 1..Cardinality(Depths) |-> ResultColumn(f[k])] :
                 f \in perms}

\* the ratios of a row: at the threshold or above it; the iteration count of
\* 'p_1_nit' is a number well above the threshold
RowsOf(columns) ==
    {r \in [1..Len(columns) -> {Fin(Threshold), Fin(Threshold + 5)}] :
        \A k \in 1..Len(columns) : columns[k] = NitColumn => r[k] = Fin(Threshold + 5)}

\* the index of the column called name
ColumnIndex(d, name) == CHOOSE k \in 1..Len(d.columns) : d.columns[k] = name

\* k in range(n)
InRangeT(k, n) == k >= 1 /\ k <= n

\* col[:2] == 'p_' and col[-1].isdigit()
IsResultColumn(col) ==
    /\ Len(col) >= 2
    /\ SubSeq(col, 1, 2) = <<"p", "_">>
    /\ isdigit(col[Len(col)])

\* [k for k in range(len(columns)) if keep(columns[k])], as indices in order
RECURSIVE SelectColumns(_, _)
SelectColumns(columns, k) ==
    IF ~InRangeT(k, Len(columns)) THEN <<>>
    ELSE (IF IsResultColumn(columns[k]) THEN <<k>> ELSE <<>>)
             \o SelectColumns(columns, k + 1)

\* np.where(row > 0.9995)[0][0]: the first position of cols whose cell
\* exceeds the threshold; 0 when there is none
FirstExceeding(row, cols) ==
    LET p_index == {j \in 1..Len(cols) : Exceeds(row[cols[j]])}
    IN  IF p_index = {} THEN 0
        ELSE CHOOSE j \in p_index : \A i \in p_index : j <= i

\* calculate_min_p(df): the table with the columns min_p and p_rel_ed added
calculate_min_p(d) ==
    LET cols == SelectColumns(d.columns, 1)
        p_vals == [j \in 1..Len(cols) |-> int(SplitField1(d.columns[cols[j]]))]
        min_p == [i \in 1..Len(d.rows) |->
                     LET first == FirstExceeding(d.rows[i], cols)
                     IN  IF first > 0 THEN Fin(p_vals[first]) ELSE Inf]
        ed == ColumnIndex(d, EdgeDiameterColumn)
    IN  [columns |-> d.columns \o <<MinPColumn, PRelEdColumn>>,
         rows |-> [i \in 1..Len(d.rows) |->
                      d.rows[i] \o <<min_p[i], FSub(min_p[i], d.rows[i][ed])>>]]

\* pd.read_csv(df_path, index_col=0): the tables calculate_extra reads
InitTable ==
    /\ t_pc = "loaded"
    /\ \E columns \in ColumnLists, n \in 1..MaxRows :
           df \in {[columns |-> columns, rows |-> rows] :
                      rows \in [1..n -> RowsOf(columns)]}
    /\ graph = MakeGraph(CHOOSE shape \in Shapes : TRUE, 0)
    /\ graph_pre = graph
    /\ p = 1
    /\ layout = "ma"
    /\ IdleEval
    /\ IdleDrv
    /\ IdleConc
    /\ IdleSim
    /\ IdleZ

\* df = calculate_edge_diameter(df): one edge diameter per row, read off the
\* row's graph file
CalculateEdgeDiameter ==
    /\ t_pc = "loaded"
    /\ \E edge_diameters \in [1..Len(df.rows) -> {Fin(1), Fin(2)}] :
           df' = [columns |-> df.columns \o <<EdgeDiameterColumn>>,
                  rows |-> [i \in 1..Len(df.rows) |->
                               df.rows[i] \o <<edge_diameters[i]>>]]
    /\ t_pc' = "diameters"
    /\ UNCHANGED <<evalVars, drvVars, concVars, simVars, zVars>>

\* df = calculate_min_p(df)
CalculateMinP ==
    /\ t_pc = "diameters"
    /\ df' = calculate_min_p(df)
    /\ t_pc' = "done"
    /\ UNCHANGED <<evalVars, drvVars, concVars, simVars, zVars>>

NextTable == CalculateEdgeDiameter \/ CalculateMinP

SpecTable == InitTable /\ [][NextTable]_vars

\* the depths of the 'p_<k>' result columns whose cell in row i exceeds 0.9995
QualifyingDepths(d, i) ==
    {int(SplitField1(d.columns[k])) :
        k \in {j \in 1..Len(d.columns) :
                  IsResultColumn(d.columns[j]) /\ Exceeds(d.rows[i][j])}}

\* C20: for every row, min_p is the least depth among the 'p_<k>' result
\* columns whose cell exceeds 0.9995, in whatever order the columns stand,
\* and infinity when no cell exceeds it; p_rel_ed is min_p minus the row's
\* edge_diameter.
C20_MinPIsLeastQualifyingDepth ==
    t_pc = "done" =>
        \A i \in 1..Len(df.rows) :
            LET q == QualifyingDepths(df, i)
                least == IF q = {} THEN Inf
                         ELSE Fin(CHOOSE m \in q : \A o \in q : m <= o)
            IN  /\ df.rows[i][ColumnIndex(df, MinPColumn)] = least
                /\ df.rows[i][ColumnIndex(df, PRelEdColumn)] =
                       FSub(least, df.rows[i][ColumnIndex(df, EdgeDiameterColumn)])

====
